---- MODULE Spec2Model ----
(***************************************************************************)
(* Model of the weatherman pipeline of weather-flask:                      *)
(*   src/weatherman/helper.py   read_csv                                   *)
(*   src/weatherman/runner.py   DataReader, Calculator, ReportGenerator,   *)
(*                              the strategy functions, process_args       *)
(*   src/app/routes/api.py      the two report routes                      *)
(*   src/app/exceptions.py      WeatherException and its handler           *)
(*                                                                         *)
(* Representation.                                                         *)
(*  - A Python str that the code searches, slices or parses (file names,   *)
(*    query dates, cell values of a weather file) is a sequence of         *)
(*    one-character strings, so that "in", endswith, strptime, float are   *)
(*    computed on the characters.  Field names, month names and error      *)
(*    kinds are only compared for equality and are TLA+ strings.           *)
(*  - A Python dict is a sequence of [k, v] entries with distinct keys in  *)
(*    insertion order (DictSet replaces in place or appends).              *)
(*  - A Python float is an integer number of tenths (Scale = 10); cell     *)
(*    texts carry at most one fractional digit.  A Python int is an Int.   *)
(*  - A call that may raise returns [ok |-> TRUE, val |-> v] or            *)
(*    [err |-> kind, ok |-> FALSE].                                        *)
(***************************************************************************)
EXTENDS Integers, Sequences, FiniteSets, TLC

\* ------------------------------------------------------------------ bounds
\* longest list of dates handed to process_args
MaxDates == 2
\* largest number of data lines of a drawn weather file / days of drawn readings
MaxRows == 2

\* tenths per unit of a modelled float
Scale == 10

\* ------------------------------------------------------- generic helpers
Range(s) == {s[n] : n \in 1..Len(s)}

Ok(v) == [ok |-> TRUE, val |-> v]

Raise(kind) == [err |-> kind, ok |-> FALSE]

\* the empty Python str ''
EmptyStr == <<>>

\* ---------------------------------------------------------- Python dict
DictKeys(d) == {d[n].k : n \in 1..Len(d)}

DictHas(d, key) == key \in DictKeys(d)

DictGet(d, key) == d[CHOOSE n \in 1..Len(d) : d[n].k = key].v

\* d[key] = value: an existing key keeps its position and takes the new value
DictSet(d, key, value) ==
    IF DictHas(d, key)
    THEN [n \in 1..Len(d) |-> IF d[n].k = key THEN [k |-> key, v |-> value] ELSE d[n]]
    ELSE Append(d, [k |-> key, v |-> value])

\* ------------------------------------------------ characters and digits
Digits == <<"0", "1", "2", "3", "4", "5", "6", "7", "8", "9">>

IsDigit(c) == c \in Range(Digits)

DigitVal(c) == (CHOOSE n \in 1..10 : Digits[n] = c) - 1

AllDigits(s) == \A n \in 1..Len(s) : IsDigit(s[n])

RECURSIVE NatOf(_)
\* value of a non-empty run of decimal digits
NatOf(s) == IF Len(s) = 0 THEN 0
            ELSE 10 * NatOf(SubSeq(s, 1, Len(s) - 1)) + DigitVal(s[Len(s)])

\* positions of character c in s
Find(s, c) == {n \in 1..Len(s) : s[n] = c}

\* Python: q in s  (substring test)
Contains(s, q) == \E n \in 1..(Len(s) - Len(q) + 1) : SubSeq(s, n, n + Len(q) - 1) = q

\* Python: s.endswith(q)
EndsWith(s, q) == Len(s) >= Len(q) /\ SubSeq(s, Len(s) - Len(q) + 1, Len(s)) = q

DotTxt == <<".", "t", "x", "t">>

\* ------------------------------------------------------ datetime helpers
MonthLong == <<"January", "February", "March", "April", "May", "June", "July",
               "August", "September", "October", "November", "December">>

\* strftime('%b') as characters, for the file-name fragment
MonthAbbrChars == << <<"J","a","n">>, <<"F","e","b">>, <<"M","a","r">>, <<"A","p","r">>,
                     <<"M","a","y">>, <<"J","u","n">>, <<"J","u","l">>, <<"A","u","g">>,
                     <<"S","e","p">>, <<"O","c","t">>, <<"N","o","v">>, <<"D","e","c">> >>

IsLeap(y) == y % 4 = 0 /\ (y % 100 # 0 \/ y % 400 = 0)

DaysIn(y, m) == IF m = 2 THEN (IF IsLeap(y) THEN 29 ELSE 28)
                ELSE IF m \in {4, 6, 9, 11} THEN 30 ELSE 31

\* %Y: exactly four digits
IsYearText(s) == Len(s) = 4 /\ AllDigits(s)

\* %m, %d: one or two digits (a leading zero only in the two-digit form)
IsShortNumText(s, hi) == /\ Len(s) \in {1, 2}
                         /\ AllDigits(s)
                         /\ NatOf(s) \in 1..hi

\* datetime.strptime(s, '%Y/%m'): ValueError unless s is YYYY/M or YYYY/MM
strptime_Ym(s) ==
    IF /\ Len(s) \in {6, 7}
       /\ IsYearText(SubSeq(s, 1, 4))
       /\ s[5] = "/"
       /\ IsShortNumText(SubSeq(s, 6, Len(s)), 12)
    THEN Ok([year |-> NatOf(SubSeq(s, 1, 4)), month |-> NatOf(SubSeq(s, 6, Len(s))), day |-> 1])
    ELSE Raise("ValueError")

\* datetime.strptime(s, '%Y-%m-%d'): ValueError unless s is a calendar date
strptime_Ymd(s) ==
    LET dash == Find(s, "-")
        p1 == CHOOSE n \in dash : \A o \in dash : n <= o
        p2 == CHOOSE n \in dash : \A o \in dash : n >= o
        ys == SubSeq(s, 1, p1 - 1)
        ms == SubSeq(s, p1 + 1, p2 - 1)
        ds == SubSeq(s, p2 + 1, Len(s))
    IN  IF /\ Cardinality(dash) = 2
           /\ IsYearText(ys)
           /\ IsShortNumText(ms, 12)
           /\ IsShortNumText(ds, 31)
           /\ NatOf(ds) <= DaysIn(NatOf(ys), NatOf(ms))
        THEN Ok([year |-> NatOf(ys), month |-> NatOf(ms), day |-> NatOf(ds)])
        ELSE Raise("ValueError")

\* ---------------------------------------------------------- float, int
\* float(s) for decimal text: [sign] digits [. [digit]]  or  [sign] . digit
float(s) ==
    LET neg   == Len(s) > 0 /\ s[1] = "-"
        body  == IF Len(s) > 0 /\ s[1] \in {"-", "+"} THEN Tail(s) ELSE s
        dots  == Find(body, ".")
        dot   == IF dots = {} THEN Len(body) + 1 ELSE CHOOSE n \in dots : TRUE
        whole == SubSeq(body, 1, dot - 1)
        frac  == SubSeq(body, dot + 1, Len(body))
        mag   == Scale * NatOf(whole) + (IF Len(frac) = 1 THEN DigitVal(frac[1]) ELSE 0)
    IN  IF /\ Cardinality(dots) <= 1
           /\ AllDigits(whole) /\ AllDigits(frac)
           /\ Len(whole) + Len(frac) > 0
           /\ Len(frac) <= 1
        THEN Ok(IF neg THEN 0 - mag ELSE mag)
        ELSE Raise("ValueError")

\* int(x) of a float: truncation toward zero
int(x) == IF x >= 0 THEN x \div Scale ELSE 0 - ((0 - x) \div Scale)

\* ------------------------------------------------------- weather files
(* A weather file is [name, header, lines]: its file name, the names of    *)
(* its header row (already split and stripped) and its data lines, each a  *)
(* sequence of cell texts with one cell per header name.  Lines with fewer  *)
(* or more cells than the header, and files that cannot be opened, are not *)
(* drawn.                                                                  *)

\* the header names that hold text, DataReader.str_headers
str_headers_day_key_only == {"PKT"}

str_headers == {"PKT", "Events"}

\* read_csv: the first header name becomes PKT, every line becomes a row
\* keyed by the header (a repeated name keeps its last cell)
read_csv(file) ==
    LET header == [file.header EXCEPT ![1] = "PKT"]
        Last(h) == CHOOSE n \in 1..Len(header) :
                       header[n] = h /\ \A o \in 1..Len(header) : header[o] = h => o <= n
    IN  [n \in 1..Len(file.lines) |-> [h \in Range(header) |-> file.lines[n][Last(h)]]]

\* DataReader._get_files: the files of the directory, in listing order,
\* whose name contains query_date and ends in .txt
_get_files(files_dir, query_date) ==
    SelectSeq(files_dir, LAMBDA f : Contains(f.name, query_date) /\ EndsWith(f.name, DotTxt))

\* a value of a Daily Reading: the raw str, or a float
StrVal(s) == [s |-> s, x |-> 0, t |-> "str"]

FloatVal(x) == [s |-> EmptyStr, x |-> x, t |-> "float"]

\* Python: value != ''
NotEmpty(value) == value # StrVal(EmptyStr)

\* DataReader._get_daily_readings: ValueError when a cell that is to be
\* coerced is not decimal text
_get_daily_readings(daily_data) ==
    LET coerced == {h \in DOMAIN daily_data : h \notin str_headers /\ daily_data[h] # EmptyStr}
    IN  IF \E h \in coerced : ~float(daily_data[h]).ok
        THEN Raise("ValueError")
        ELSE Ok([h \in DOMAIN daily_data |->
                    IF h \in coerced THEN FloatVal(float(daily_data[h]).val)
                    ELSE StrVal(daily_data[h])])

RECURSIVE StrOfNat(_)
\* str(n) of a non-negative int
StrOfNat(n) == IF n < 10 THEN <<Digits[n + 1]>>
               ELSE StrOfNat(n \div 10) \o <<Digits[(n % 10) + 1]>>

RECURSIVE FillMonthly(_, _)
\* the loop of get_monthly_readings over the rows left, from the readings so far
FillMonthly(monthly_data, monthly_readings) ==
    IF monthly_data = <<>> THEN Ok(monthly_readings)
    ELSE LET daily_data == Head(monthly_data)
             date == strptime_Ymd(daily_data["PKT"])
             daily == _get_daily_readings(daily_data)
         IN  IF ~date.ok THEN Raise(date.err)
             ELSE IF ~daily.ok THEN Raise(daily.err)
             ELSE FillMonthly(Tail(monthly_data),
                              DictSet(monthly_readings, date.val.day, daily.val))

\* DataReader.get_monthly_readings(independent = True): the first file whose
\* name contains YYYY_Mon, keyed by day of month
get_monthly_readings(files_dir, report_date) ==
    LET parsed == strptime_Ym(report_date)
        query  == StrOfNat(parsed.val.year) \o <<"_">> \o MonthAbbrChars[parsed.val.month]
        found  == _get_files(files_dir, query)
    IN  IF ~parsed.ok THEN Raise(parsed.err)
        ELSE IF found = <<>> THEN Raise("IndexError")
        ELSE FillMonthly(read_csv(found[1]), <<>>)

RECURSIVE FillYearly(_, _)
\* the loop of get_yearly_readings over the files left, from the readings so far
FillYearly(file_list, yearly_readings) ==
    IF file_list = <<>> THEN Ok(yearly_readings)
    ELSE LET monthly_data == read_csv(Head(file_list))
             first   == strptime_Ymd(monthly_data[1]["PKT"])
             monthly == FillMonthly(monthly_data, <<>>)
         IN  IF monthly_data = <<>> THEN Raise("IndexError")
             ELSE IF ~first.ok THEN Raise(first.err)
             ELSE IF ~monthly.ok THEN Raise(monthly.err)
             ELSE FillYearly(Tail(file_list),
                             DictSet(yearly_readings, MonthLong[first.val.month], monthly.val))

\* DataReader.get_yearly_readings: every file whose name contains the query
\* date, keyed by the long month name of its first row
get_yearly_readings(files_dir, report_date) ==
    FillYearly(_get_files(files_dir, report_date), <<>>)

\* ------------------------------------------------------------ Calculator
(* Readings are [shape, d]: d is the dict built by the reader, shape tells *)
(* whether it is keyed by month name ("yearly": month -> day -> reading)   *)
(* or by day ("monthly": day -> reading).  A Summary is a record tagged    *)
(* with its kind.                                                          *)

YearlyReadings(d) == [d |-> d, shape |-> "yearly"]

MonthlyReadings(d) == [d |-> d, shape |-> "monthly"]

\* f'{day} {month}'
DayMonth(day, month) == [day |-> day, month |-> month]

RECURSIVE Flatten(_)
\* the (label, reading) pairs of yearly readings in the order of the two
\* nested loops of Calculator.compute
Flatten(yearly) ==
    IF yearly = <<>> THEN <<>>
    ELSE LET month == Head(yearly).k
             days  == Head(yearly).v
         IN  [n \in 1..Len(days) |-> [k |-> DayMonth(days[n].k, month), v |-> days[n].v]]
             \o Flatten(Tail(yearly))

\* the dict  label -> int(reading[field])  over the pairs whose field is not ''
IntReadings_keep_empty(pairs, field) ==
    [n \in 1..Len(pairs) |-> [k |-> pairs[n].k, v |-> int(pairs[n].v[field].x)]]

IntReadings(pairs, field) ==
    LET kept == SelectSeq(pairs, LAMBDA e : NotEmpty(e.v[field]))
    IN  [n \in 1..Len(kept) |-> [k |-> kept[n].k, v |-> int(kept[n].v[field].x)]]

\* max(d, key = lambda key: d[key]): the first key whose value no other exceeds
MaxKey_last(d) == d[CHOOSE n \in 1..Len(d) :
                      /\ \A o \in 1..Len(d) : d[o].v <= d[n].v
                      /\ \A o \in (n + 1)..Len(d) : d[o].v < d[n].v].k

MaxKey(d) == d[CHOOSE n \in 1..Len(d) :
                 /\ \A o \in 1..Len(d) : d[o].v <= d[n].v
                 /\ \A o \in 1..(n - 1) : d[o].v < d[n].v].k

\* min(d, key = lambda key: d[key]): the first key whose value no other undercuts
MinKey(d) == d[CHOOSE n \in 1..Len(d) :
                 /\ \A o \in 1..Len(d) : d[o].v >= d[n].v
                 /\ \A o \in 1..(n - 1) : d[o].v > d[n].v].k

\* every reading of the dict has all of the fields
HaveFields(d, fields) == \A n \in 1..Len(d) : fields \subseteq DOMAIN d[n].v

\* Calculator.compute, the default reduction
Calculator_compute(readings) ==
    LET pairs == Flatten(readings.d)
        max_temps_readings    == IntReadings(pairs, "Max TemperatureC")
        min_temps_readings    == IntReadings(pairs, "Min TemperatureC")
        max_humidity_readings == IntReadings(pairs, "Max Humidity")
        max_temp_date     == MaxKey(max_temps_readings)
        min_temp_date     == MinKey(min_temps_readings)
        max_humidity_date == MaxKey(max_humidity_readings)
    IN  IF readings.shape = "monthly"
        THEN \* each value of a day's reading is a str or a float: subscripting it fails
             IF readings.d = <<>> THEN Raise("ValueError") ELSE Raise("TypeError")
        ELSE IF ~HaveFields(pairs, {"Max TemperatureC", "Min TemperatureC", "Max Humidity"})
        THEN Raise("KeyError")
        ELSE IF \/ max_temps_readings = <<>>
                \/ min_temps_readings = <<>>
                \/ max_humidity_readings = <<>>
        THEN Raise("ValueError")
        ELSE Ok([kind |-> "extremes",
                 max_temp      |-> DictGet(max_temps_readings, max_temp_date),
                 max_date      |-> max_temp_date,
                 min_temp      |-> DictGet(min_temps_readings, min_temp_date),
                 min_date      |-> min_temp_date,
                 max_humidity  |-> DictGet(max_humidity_readings, max_humidity_date),
                 humidity_date |-> max_humidity_date])

RECURSIVE SumOf(_)
\* sum of a sequence of floats
SumOf(xs) == IF xs = <<>> THEN 0 ELSE Head(xs) + SumOf(Tail(xs))

\* the floats of a field over the days where it is not ''
Values(d, field) ==
    LET kept == SelectSeq(d, LAMBDA e : NotEmpty(e.v[field]))
    IN  [n \in 1..Len(kept) |-> kept[n].v[field].x]

\* round(total / count): nearest int, an exact half goes to the even one
round_half_up(total, count) ==
    LET den == Scale * count
        lo  == total \div den
        rem == total - lo * den
    IN  IF 2 * rem < den THEN lo ELSE lo + 1

round(total, count) ==
    LET den == Scale * count
        lo  == total \div den
        rem == total - lo * den
    IN  IF 2 * rem < den THEN lo
        ELSE IF 2 * rem > den THEN lo + 1
        ELSE IF lo % 2 = 0 THEN lo ELSE lo + 1

\* compute_monthly_average
compute_monthly_average(readings) ==
    LET max_temps     == Values(readings.d, "Max TemperatureC")
        min_temps     == Values(readings.d, "Min TemperatureC")
        mean_humidity == Values(readings.d, "Mean Humidity")
    IN  IF readings.shape = "yearly"
        THEN \* a month's dict is keyed by day numbers only
             IF readings.d = <<>> THEN Raise("ZeroDivisionError") ELSE Raise("KeyError")
        ELSE IF ~HaveFields(readings.d, {"Max TemperatureC", "Min TemperatureC", "Mean Humidity"})
        THEN Raise("KeyError")
        ELSE IF max_temps = <<>> \/ min_temps = <<>> \/ mean_humidity = <<>>
        THEN Raise("ZeroDivisionError")
        ELSE Ok([kind |-> "averages",
                 max_temp_avg      |-> round(SumOf(max_temps), Len(max_temps)),
                 min_temp_avg      |-> round(SumOf(min_temps), Len(min_temps)),
                 mean_humidity_avg |-> round(SumOf(mean_humidity), Len(mean_humidity))])

\* daily_reading['Max TemperatureC'] != '' and daily_reading['Min TemperatureC'] != ''
BothPresent_either(daily_reading) ==
    NotEmpty(daily_reading["Max TemperatureC"]) \/ NotEmpty(daily_reading["Min TemperatureC"])

BothPresent(daily_reading) ==
    NotEmpty(daily_reading["Max TemperatureC"]) /\ NotEmpty(daily_reading["Min TemperatureC"])

\* compute_min_max
compute_min_max(readings) ==
    LET kept == SelectSeq(readings.d, LAMBDA e : BothPresent(e.v))
    IN  IF readings.shape = "yearly"
        THEN IF readings.d = <<>> THEN Ok([kind |-> "min_max", d |-> <<>>])
             ELSE Raise("KeyError")
        ELSE IF ~HaveFields(readings.d, {"Max TemperatureC", "Min TemperatureC"})
        THEN Raise("KeyError")
        ELSE Ok([kind |-> "min_max",
                 d |-> [n \in 1..Len(kept) |->
                          [k |-> kept[n].k,
                           v |-> [max_temp |-> int(kept[n].v["Max TemperatureC"].x),
                                  min_temp |-> int(kept[n].v["Min TemperatureC"].x)]]]])

\* Calculator(readings, func).compute(): func None keeps the default
Calculator(readings, func) ==
    CASE func = "None"                    -> Calculator_compute(readings)
      [] func = "compute_monthly_average" -> compute_monthly_average(readings)
      [] func = "compute_min_max"         -> compute_min_max(readings)

\* ------------------------------------------------------- ReportGenerator
(* A render returns [ok, out, val | err]: out is what it printed, line by  *)
(* line, before returning its report or raising.  A printed line is a      *)
(* record of the values formatted into it.                                 *)

Rendered(out, report) == [ok |-> TRUE, val |-> report, out |-> out]

Failed(out, kind) == [err |-> kind, ok |-> FALSE, out |-> out]

\* f'{value}C', f'{value}%'
WithUnit(value, unit) == [value |-> value, unit |-> unit]

\* the number of characters of "+" * n: none for n <= 0
BarLen_abs(n) == IF n > 0 THEN n ELSE 0 - n

BarLen(n) == IF n > 0 THEN n ELSE 0

\* the report {} of the bar-chart renders
EmptyReport == [kind |-> "empty"]

\* ReportGenerator.generate_report, the default render
generate_report(results, report_date) ==
    IF results.kind # "extremes" THEN Failed(<<>>, "KeyError")
    ELSE Rendered(
           << [text |-> "Highest", value |-> WithUnit(results.max_temp, "C"),
               date |-> results.max_date],
              [text |-> "Lowest", value |-> WithUnit(results.min_temp, "C"),
               date |-> results.min_date],
              [text |-> "Humidity", value |-> WithUnit(results.max_humidity, "%"),
               date |-> results.humidity_date] >>,
           [kind |-> "extremes", date |-> report_date,
            highest_temp |-> [value |-> WithUnit(results.max_temp, "C"),
                              date |-> results.max_date],
            lowest_temp  |-> [value |-> WithUnit(results.min_temp, "C"),
                              date |-> results.min_date],
            max_humidity |-> [value |-> WithUnit(results.max_humidity, "%"),
                              date |-> results.humidity_date]])

\* generate_average_report
generate_average_report(results, report_date) ==
    IF results.kind # "averages" THEN Failed(<<>>, "KeyError")
    ELSE Rendered(
           << [text |-> "Highest Average", value |-> WithUnit(results.max_temp_avg, "C")],
              [text |-> "Lowest Average", value |-> WithUnit(results.min_temp_avg, "C")],
              [text |-> "Average Mean Humidity",
               value |-> WithUnit(results.mean_humidity_avg, "%")] >>,
           [kind |-> "averages", date |-> report_date,
            highest_avg_temp  |-> WithUnit(results.max_temp_avg, "C"),
            lowest_avg_temp   |-> WithUnit(results.min_temp_avg, "C"),
            avg_mean_humidity |-> WithUnit(results.mean_humidity_avg, "%")])

\* strptime(report_date, '%Y/%m').strftime('%B %Y')
MonthYearLine(parsed) ==
    [text |-> "month year", month |-> MonthLong[parsed.month], year |-> parsed.year]

RECURSIVE MultipleBars(_)
\* the loop of generate_multiple_bar_report: two lines per item of the dict
MultipleBars(d) ==
    IF d = <<>> THEN <<>>
    ELSE << [text |-> "max bar", day |-> Head(d).k,
             bar |-> BarLen(Head(d).v.max_temp), value |-> WithUnit(Head(d).v.max_temp, "C")],
            [text |-> "min bar", day |-> Head(d).k,
             bar |-> BarLen(Head(d).v.min_temp), value |-> WithUnit(Head(d).v.min_temp, "C")] >>
         \o MultipleBars(Tail(d))

\* the loop of generate_single_bar_report: one line per item of the dict
SingleBars(d) ==
    [n \in 1..Len(d) |->
        [text |-> "range bar", day |-> d[n].k,
         blue |-> BarLen(d[n].v.min_temp), red |-> BarLen(d[n].v.max_temp),
         low  |-> WithUnit(d[n].v.min_temp, "C"), high |-> WithUnit(d[n].v.max_temp, "C")]]

\* generate_multiple_bar_report
generate_multiple_bar_report(results, report_date) ==
    LET parsed == strptime_Ym(report_date)
    IN  IF ~parsed.ok THEN Failed(<<>>, parsed.err)
        ELSE IF results.kind # "min_max"
        THEN \* the keys of the other summaries are names: "%02d" % name fails
             Failed(<<MonthYearLine(parsed.val)>>, "TypeError")
        ELSE Rendered(<<MonthYearLine(parsed.val)>> \o MultipleBars(results.d), EmptyReport)

\* generate_single_bar_report
generate_single_bar_report(results, report_date) ==
    LET parsed == strptime_Ym(report_date)
    IN  IF ~parsed.ok THEN Failed(<<>>, parsed.err)
        ELSE IF results.kind # "min_max"
        THEN Failed(<<MonthYearLine(parsed.val)>>, "TypeError")
        ELSE Rendered(<<MonthYearLine(parsed.val)>> \o SingleBars(results.d), EmptyReport)

\* ReportGenerator(results, report_date, func).generate_report(): func None
\* keeps the default
ReportGenerator(results, report_date, func) ==
    CASE func = "None" -> generate_report(results, report_date)
      [] func = "generate_average_report" -> generate_average_report(results, report_date)
      [] func = "generate_multiple_bar_report" ->
             generate_multiple_bar_report(results, report_date)
      [] func = "generate_single_bar_report" ->
             generate_single_bar_report(results, report_date)

CalcStrategies == {"None", "compute_monthly_average", "compute_min_max"}

ReportStrategies == {"None", "generate_average_report",
                     "generate_multiple_bar_report", "generate_single_bar_report"}

\* ------------------------------------------------- the weather directory
\* header row of the weather files (its first name differs from file to file)
Header(first) == <<first, "Max TemperatureC", "Min TemperatureC",
                   "Max Humidity", "Mean Humidity", "Events">>

\* m_2011_Jul.txt: two July days that tie for the highest temperature, one
\* empty cell
File_Jul == [name   |-> <<"m","_","2","0","1","1","_","J","u","l",".","t","x","t">>,
             header |-> Header("PKT"),
             lines  |-> << << <<"2","0","1","1","-","7","-","1">>,
                              <<"3","0">>, <<"2","0">>, <<"8","0">>, <<"5","0">>, <<>> >>,
                           << <<"2","0","1","1","-","7","-","2">>,
                              <<"3","0">>, <<>>, <<"7","5">>, <<"5","1">>, <<"R","a","i","n">> >> >>]

\* m_2011_Aug.txt: header PKST, rows not in ascending date order
File_Aug == [name   |-> <<"m","_","2","0","1","1","_","A","u","g",".","t","x","t">>,
             header |-> Header("PKST"),
             lines  |-> << << <<"2","0","1","1","-","8","-","2">>,
                              <<"2","8">>, <<"1","8",".","5">>, <<"9","0">>, <<"6","0">>, <<>> >>,
                           << <<"2","0","1","1","-","8","-","1">>,
                              <<"2","9">>, <<"-","1">>, <<"8","5">>, <<"6","1">>, <<>> >> >>]

\* l_2011_Jul.txt: a second location, same year and month as m_2011_Jul.txt
File_Jul_l == [name   |-> <<"l","_","2","0","1","1","_","J","u","l",".","t","x","t">>,
               header |-> Header("PKT"),
               lines  |-> << << <<"2","0","1","1","-","7","-","3">>,
                                <<"3","3">>, <<"2","2">>, <<"7","0">>, <<"4","0">>, <<>> >> >>]

\* m_2012_Jul.txt: a cell that is not a number
File_bad == [name   |-> <<"m","_","2","0","1","2","_","J","u","l",".","t","x","t">>,
             header |-> Header("PKT"),
             lines  |-> << << <<"2","0","1","2","-","7","-","1">>,
                              <<"x">>, <<"2","0">>, <<"8","0">>, <<"5","0">>, <<>> >> >>]

\* m_2012_Aug.txt: a header row and no data line
File_empty == [name   |-> <<"m","_","2","0","1","2","_","A","u","g",".","t","x","t">>,
               header |-> Header("PKT"),
               lines  |-> <<>>]

\* m_2011_Sep.csv: not a .txt file
File_csv == [name   |-> <<"m","_","2","0","1","1","_","S","e","p",".","c","s","v">>,
             header |-> Header("PKT"),
             lines  |-> << << <<"2","0","1","1","-","9","-","1">>,
                              <<"2","5">>, <<"1","5">>, <<"6","0">>, <<"4","0">>, <<>> >> >>]

\* the directories drawn, each in os.listdir order
Dirs == { <<File_Jul, File_Aug, File_csv>>,
          <<File_Aug, File_Jul, File_Jul_l>>,
          <<File_Jul, File_bad, File_empty>>,
          <<>> }

\* the date strings a caller may pass
Dates == { <<"2","0","1","1">>,
           <<"2","0","1","2">>,
           <<"2","0","1","1","/","7">>,
           <<"2","0","1","1","/","0","8">>,
           <<"2","0","1","2","/","7">> }

RECURSIVE SeqsUpTo(_, _)
\* the sequences over S of length at most n
SeqsUpTo(S, n) ==
    IF n = 0 THEN {<<>>}
    ELSE LET shorter == SeqsUpTo(S, n - 1)
         IN  shorter \cup {Append(q, e) : q \in {r \in shorter : Len(r) = n - 1}, e \in S}

\* ------------------------------------------------------------------ state
VARIABLES
    files_dir,      \* the weather files of WEATHER_FILES_PATH, in listing order
    caller,         \* who called process_args: a route of api.py, or "direct"
    dates,          \* process_args: the list of dates
    strategies,     \* process_args: [calc_strategy, report_strategy]
    yearly,         \* process_args: the yearly flag
    report_num,     \* process_args: the report counter
    pc,             \* position of the running call
    idx,            \* process_args: position of the for loop in dates (1-based)
    readings,       \* process_args: readings of the current date
    computations,   \* process_args: Summary of the current date
    reports,        \* process_args: the reports collected so far
    result,         \* the value process_args returned to its caller
    err,            \* the exception that left process_args
    response,       \* the HTTP response of the route
    stdout,         \* every line printed so far
    trace,          \* history: the reader, calculator and generator runs, per date
    daily_data,     \* the Raw Row handed to _get_daily_readings
    daily_readings, \* what _get_daily_readings returned for daily_data
    args,           \* main: the parsed command line, [e, a, c, b]
    flag,           \* main: the flag group whose if statement is next
    main_report_num \* main: its own report_num

vars == <<files_dir, caller, dates, strategies, yearly, report_num, pc, idx, readings,
          computations, reports, result, err, response, stdout, trace,
          daily_data, daily_readings, args, flag, main_report_num>>

\* the variables of main
main_vars == <<args, flag, main_report_num>>

\* a variable that holds nothing yet
None == [none |-> TRUE]

\* no exception has been raised
NoError == "no error"

\* the value a call returned
Returned(value) == [none |-> FALSE, val |-> value]

Routes == {"weatherman_yearly_report", "weatherman_monthly_report"}

\* the objects report_num is bound to: an int, or the list main binds it to
PyInt(n) == [int |-> n]

PyList(l) == [list |-> l]

\* isinstance(num, int)
IsInt(num) == DOMAIN num = {"int"}

\* main is not running
NoMain ==
    /\ args = None
    /\ flag = "none"
    /\ main_report_num = None

\* the variables of one process_args call, before it starts
Idle ==
    /\ caller = "nobody"
    /\ dates = <<>>
    /\ strategies = None
    /\ yearly = FALSE
    /\ report_num = None
    /\ idx = 0
    /\ readings = None
    /\ computations = None
    /\ reports = <<>>
    /\ result = None
    /\ err = NoError
    /\ response = None
    /\ stdout = <<>>
    /\ trace = <<>>

Init ==
    /\ files_dir \in Dirs
    /\ pc = "idle"
    /\ Idle
    /\ daily_data = None
    /\ daily_readings = None
    /\ NoMain

\* reports.append(report)
Collect_front(collected, report) == <<report>> \o collected

Collect(collected, report) == Append(collected, report)

\* an exception of a per-date step leaves process_args: nothing catches it
Propagate_continue(kind) == err' = kind /\ pc' = "for"

Propagate(kind) == err' = kind /\ pc' = "raised"

\* entry of process_args(dates, report_num, path, strategies, yearly)
Enter(who, ds, num, strat, y) ==
    /\ pc = "idle"
    /\ caller' = who
    /\ dates' = ds
    /\ report_num' = num
    /\ strategies' = strat
    /\ yearly' = y
    /\ reports' = <<>>
    /\ idx' = 1
    /\ pc' = "for"
    /\ UNCHANGED <<files_dir, readings, computations, result, err, response, stdout, trace,
                   daily_data, daily_readings, main_vars>>

\* GET /api/weatherman/yearly_report?year=..&year=..  (the request has passed
\* jwt_required)
weatherman_yearly_report ==
    \E ds \in SeqsUpTo(Dates, MaxDates) :
        Enter("weatherman_yearly_report", ds, PyInt(1),
              [calc_strategy |-> "None", report_strategy |-> "None"], TRUE)

\* GET /api/weatherman/monthly_report?date=..&date=..
weatherman_monthly_report ==
    \E ds \in SeqsUpTo(Dates, MaxDates) :
        Enter("weatherman_monthly_report", ds, PyInt(1),
              [calc_strategy |-> "compute_monthly_average",
               report_strategy |-> "generate_average_report"], FALSE)

\* process_args called by any other caller, with any pair of strategies
Call ==
    \E ds \in SeqsUpTo(Dates, MaxDates), c \in CalcStrategies,
       r \in ReportStrategies, y \in BOOLEAN :
        Enter("direct", ds, PyInt(1), [calc_strategy |-> c, report_strategy |-> r], y)

\* for date in dates: print the header, construct the DataReader
ForDate ==
    /\ pc = "for"
    /\ idx <= Len(dates)
    /\ stdout' = Append(stdout, [text |-> "Report #", n |-> report_num])
    /\ pc' = "read"
    /\ UNCHANGED <<files_dir, caller, dates, strategies, yearly, report_num, idx, readings,
                   computations, reports, result, err, response, trace,
                   daily_data, daily_readings, main_vars>>

\* the DataReader reads the current date, yearly or monthly
Read ==
    /\ pc = "read"
    /\ LET got == IF yearly THEN get_yearly_readings(files_dir, dates[idx])
                  ELSE get_monthly_readings(files_dir, dates[idx])
       IN  /\ trace' = Append(trace, [step |-> "reader", date |-> idx])
           /\ IF got.ok
              THEN /\ readings' = IF yearly THEN YearlyReadings(got.val)
                                  ELSE MonthlyReadings(got.val)
                   /\ pc' = "compute"
                   /\ err' = err
              ELSE /\ Propagate(got.err)
                   /\ readings' = readings
    /\ UNCHANGED <<files_dir, caller, dates, strategies, yearly, report_num, idx,
                   computations, reports, result, response, stdout,
                   daily_data, daily_readings, main_vars>>

\* the Calculator reduces the readings with the calc strategy
Compute ==
    /\ pc = "compute"
    /\ LET got == Calculator(readings, strategies.calc_strategy)
       IN  /\ trace' = Append(trace, [step |-> "calculator", date |-> idx])
           /\ IF got.ok
              THEN /\ computations' = got.val
                   /\ pc' = "generate"
                   /\ err' = err
              ELSE /\ Propagate(got.err)
                   /\ computations' = computations
    /\ UNCHANGED <<files_dir, caller, dates, strategies, yearly, report_num, idx, readings,
                   reports, result, response, stdout, daily_data, daily_readings, main_vars>>

\* report_num += 1: an int is incremented; a list cannot take the int 1
\* ('int' object is not iterable) and stays as it is
Increment(num) == IF IsInt(num) THEN Ok(PyInt(num.int + 1)) ELSE Raise("TypeError")

\* the ReportGenerator renders the Summary; the report is appended and the
\* counter incremented
Generate ==
    /\ pc = "generate"
    /\ LET got  == ReportGenerator(computations, dates[idx], strategies.report_strategy)
           next == Increment(report_num)
       IN  /\ trace' = Append(trace, [step |-> "generator", date |-> idx])
           /\ stdout' = stdout \o got.out
           /\ IF got.ok
              THEN /\ reports' = Collect(reports, got.val)
                   /\ IF next.ok
                      THEN /\ report_num' = next.val
                           /\ idx' = idx + 1
                           /\ pc' = "for"
                           /\ err' = err
                      ELSE /\ Propagate(next.err)
                           /\ UNCHANGED <<report_num, idx>>
              ELSE /\ Propagate(got.err)
                   /\ UNCHANGED <<reports, report_num, idx>>
    /\ UNCHANGED <<files_dir, caller, dates, strategies, yearly, readings, computations,
                   result, response, daily_data, daily_readings, main_vars>>

\* return reports
Return ==
    /\ pc = "for"
    /\ idx > Len(dates)
    /\ result' = Returned(reports)
    /\ pc' = "returned"
    /\ UNCHANGED <<files_dir, caller, dates, strategies, yearly, report_num, idx, readings,
                   computations, reports, err, response, stdout, trace,
                   daily_data, daily_readings, main_vars>>

\* WeatherException as rendered by handle_exception
WeatherException == [status |-> 400, message |-> "invalid input data entered"]

\* except Exception as e: raise WeatherException
Except_by_kind(e) == IF e = "IndexError" THEN [status |-> 404, message |-> "no such file"]
                     ELSE WeatherException

Except(e) == WeatherException

\* the route returns jsonify(reports), 200
RouteReturn ==
    /\ pc = "returned"
    /\ caller \in Routes
    /\ response' = [status |-> 200, json |-> result.val]
    /\ pc' = "responded"
    /\ UNCHANGED <<files_dir, caller, dates, strategies, yearly, report_num, idx, readings,
                   computations, reports, result, err, stdout, trace,
                   daily_data, daily_readings, main_vars>>

\* except Exception: raise WeatherException, answered by handle_exception
RouteExcept ==
    /\ pc = "raised"
    /\ caller \in Routes
    /\ response' = Except(err)
    /\ pc' = "responded"
    /\ UNCHANGED <<files_dir, caller, dates, strategies, yearly, report_num, idx, readings,
                   computations, reports, result, err, stdout, trace,
                   daily_data, daily_readings, main_vars>>

Next ==
    \/ weatherman_yearly_report
    \/ weatherman_monthly_report
    \/ Call
    \/ ForDate
    \/ Read
    \/ Compute
    \/ Generate
    \/ Return
    \/ RouteReturn
    \/ RouteExcept

Spec == Init /\ [][Next]_vars

\* ----------------------------------------- _get_daily_readings on its own
\* cell texts of a drawn Raw Row: '', 7, -1.5, x, Rain, 2011-7-1
Cells == { <<>>, <<"7">>, <<"-","1",".","5">>, <<"x">>, <<"R","a","i","n">>,
           <<"2","0","1","1","-","7","-","1">> }

\* header names of a drawn Raw Row; PKT is always among them (read_csv)
RowFields == {"PKT", "Events", "Max TemperatureC", "Mean Humidity"}

\* the Raw Rows drawn
Rows == UNION {[H -> Cells] : H \in {G \in SUBSET RowFields : "PKT" \in G}}

InitReader ==
    /\ files_dir = <<>>
    /\ pc = "row"
    /\ Idle
    /\ daily_data \in Rows
    /\ daily_readings = None
    /\ NoMain

\* daily_readings = self._get_daily_readings(daily_data)
GetDailyReadings ==
    /\ pc = "row"
    /\ daily_readings' = _get_daily_readings(daily_data)
    /\ pc' = "typed"
    /\ UNCHANGED <<files_dir, caller, dates, strategies, yearly, report_num, idx, readings,
                   computations, reports, result, err, response, stdout, trace, daily_data,
                   main_vars>>

NextReader == GetDailyReadings

SpecReader == InitReader /\ [][NextReader]_vars

\* ------------------------------------------------ the reductions on their own
\* '' as the reader keeps it
Blank == StrVal(EmptyStr)

\* the PKT text of a day of 2011
PKT(month, day) == <<"2","0","1","1","-">> \o StrOfNat(month) \o <<"-">> \o StrOfNat(day)

\* a Daily Reading as the reader builds it from a row of the five columns
Reading(month, day, combo) ==
    [h \in {"PKT", "Max TemperatureC", "Min TemperatureC", "Max Humidity", "Mean Humidity"} |->
        CASE h = "PKT"              -> StrVal(PKT(month, day))
          [] h = "Max TemperatureC" -> combo[1]
          [] h = "Min TemperatureC" -> combo[2]
          [] h = "Max Humidity"     -> combo[3]
          [] h = "Mean Humidity"    -> combo[4]]

\* the sequences of distinct elements of S with a length in lens
DistinctSeqs(S, lens) ==
    {q \in SeqsUpTo(S, Cardinality(S)) :
        /\ Len(q) \in lens
        /\ \A m, n \in 1..Len(q) : m # n => q[m] # q[n]}

\* values drawn for the rows of yearly readings: 29, 30, 30.5 / -1, -1.5 / 80
YearlyCombos == {Blank, FloatVal(300), FloatVal(305)}
                \X {Blank, FloatVal(0 - 10), FloatVal(0 - 15)}
                \X {Blank, FloatVal(800)}
                \X {FloatVal(500)}

\* values drawn for the rows of monthly readings: 0, 1, 2 / -1.5, 2 / 51
MonthlyCombos == {Blank, FloatVal(0), FloatVal(10), FloatVal(20)}
                 \X {Blank, FloatVal(0 - 15), FloatVal(20)}
                 \X {FloatVal(800)}
                 \X {Blank, FloatVal(510)}

YearlyDays == {1, 2}

MonthlyDays == {1, 2, 3}

\* months of the drawn yearly readings: July, August
YearlyMonths == {7, 8}

\* the (month, day) labels of the drawn yearly readings, in file-then-row
\* order: distinct, the days of a month next to each other
YearlyLabels ==
    {q \in DistinctSeqs(YearlyMonths \X YearlyDays, 0..MaxRows) :
        \A m, n \in 1..Len(q) : (m < n /\ q[m][1] = q[n][1]) =>
                                    \A o \in m..n : q[o][1] = q[m][1]}

RECURSIVE StoreYearly(_, _, _)
\* yearly readings holding the rows left, stored as the reader stores them
StoreYearly(labels, rows, yearly_readings) ==
    IF labels = <<>> THEN yearly_readings
    ELSE LET month == MonthLong[Head(labels)[1]]
             sofar == IF DictHas(yearly_readings, month)
                      THEN DictGet(yearly_readings, month) ELSE <<>>
         IN  StoreYearly(Tail(labels), Tail(rows),
                         DictSet(yearly_readings, month,
                                 DictSet(sofar, Head(labels)[2],
                                         Reading(Head(labels)[1], Head(labels)[2], Head(rows)))))

\* monthly readings of July holding the rows, one per day of days
StoreMonthly(days, rows) ==
    [n \in 1..Len(days) |-> [k |-> days[n], v |-> Reading(7, days[n], rows[n])]]

\* the readings drawn: yearly ones of up to MaxRows days over two months,
\* monthly ones of up to MaxRows days
DrawReadings ==
    \/ \E q \in YearlyLabels : \E f \in [1..Len(q) -> YearlyCombos] :
           readings = YearlyReadings(StoreYearly(q, f, <<>>))
    \/ \E q \in DistinctSeqs(MonthlyDays, 0..MaxRows) : \E f \in [1..Len(q) -> MonthlyCombos] :
           readings = MonthlyReadings(StoreMonthly(q, f))

InitCalc ==
    /\ files_dir = <<>>
    /\ pc = "readings"
    /\ caller = "nobody"
    /\ dates = <<>>
    /\ strategies = None
    /\ yearly = FALSE
    /\ report_num = None
    /\ idx = 0
    /\ DrawReadings
    /\ computations = None
    /\ reports = <<>>
    /\ result = None
    /\ err = NoError
    /\ response = None
    /\ stdout = <<>>
    /\ trace = <<>>
    /\ daily_data = None
    /\ daily_readings = None
    /\ NoMain

\* computations = Calculator(readings, func).compute()
Reduce(func) ==
    /\ pc = "readings"
    /\ strategies' = [calc_strategy |-> func, report_strategy |-> "None"]
    /\ LET got == Calculator(readings, func)
       IN  IF got.ok THEN computations' = got.val /\ err' = err
           ELSE err' = got.err /\ computations' = computations
    /\ pc' = "reduced"
    /\ UNCHANGED <<files_dir, caller, dates, yearly, report_num, idx, readings, reports,
                   result, response, stdout, trace, daily_data, daily_readings, main_vars>>

ComputeDefault == Reduce("None")

ComputeMonthlyAverage == Reduce("compute_monthly_average")

ComputeMinMax == Reduce("compute_min_max")

NextCalc == ComputeDefault \/ ComputeMonthlyAverage \/ ComputeMinMax

SpecCalc == InitCalc /\ [][NextCalc]_vars

\* ------------------------------------- the bar-chart renders on drawn readings
(* process_args taken up after the reader returned the monthly readings of *)
(* the date 2011/7: the min-max reduction and one of the two bar-chart     *)
(* renders run on readings drawn from values of either sign.               *)

\* values drawn for the rows: -2.5, 0, 2.5 / -3, 0.5, 1 / 80 / 51
RenderCombos == {Blank, FloatVal(0 - 25), FloatVal(0), FloatVal(25)}
                \X {Blank, FloatVal(0 - 30), FloatVal(5), FloatVal(10)}
                \X {FloatVal(800)}
                \X {FloatVal(510)}

BarStrategies == {"generate_multiple_bar_report", "generate_single_bar_report"}

InitRender ==
    /\ files_dir = <<>>
    /\ pc = "compute"
    /\ caller = "direct"
    /\ dates = << <<"2","0","1","1","/","7">> >>
    /\ \E r \in BarStrategies :
           strategies = [calc_strategy |-> "compute_min_max", report_strategy |-> r]
    /\ yearly = FALSE
    /\ report_num = PyInt(1)
    /\ idx = 1
    /\ \E q \in DistinctSeqs(MonthlyDays, 0..MaxRows) : \E f \in [1..Len(q) -> RenderCombos] :
           readings = MonthlyReadings(StoreMonthly(q, f))
    /\ computations = None
    /\ reports = <<>>
    /\ result = None
    /\ err = NoError
    /\ response = None
    /\ stdout = <<[n |-> PyInt(1), text |-> "Report #"]>>
    /\ trace = <<[date |-> 1, step |-> "reader"]>>
    /\ daily_data = None
    /\ daily_readings = None
    /\ NoMain

NextRender == Compute \/ Generate \/ Return

SpecRender == InitRender /\ [][NextRender]_vars

\* ------------------------------------------------------------------ main
(* main of runner.py: the command line is parsed into args, then the four  *)
(* flag groups are taken in the order -e, -a, -c, -b.  A flag that was not *)
(* given is None; one that was given holds at least one date (nargs='+').  *)
(* A flag not given is the empty sequence here.  main catches nothing: an  *)
(* exception leaving process_args ends the program.                        *)

Date_2011 == <<"2","0","1","1">>

Date_2012 == <<"2","0","1","2">>

Date_2011_7 == <<"2","0","1","1","/","7">>

Date_2011_08 == <<"2","0","1","1","/","0","8">>

\* the command lines drawn: up to MaxDates dates per flag
MainArgs == [e : SeqsUpTo({Date_2011, Date_2012}, MaxDates),
             a : SeqsUpTo({Date_2011_7}, MaxDates),
             c : SeqsUpTo({Date_2011_08}, MaxDates),
             b : SeqsUpTo({Date_2011_7}, MaxDates)]

\* args = parser.parse_args(); report_num = 1
InitMain ==
    /\ files_dir \in Dirs
    /\ pc = "main"
    /\ Idle
    /\ daily_data = None
    /\ daily_readings = None
    /\ args \in MainArgs
    /\ flag = "e"
    /\ main_report_num = PyInt(1)

\* if args.<f>: report_num = process_args(args.<f>, report_num, args.path,
\* strategy[, yearly=True]): the test and the entry of the call
main_if(f, strategy, y, following) ==
    /\ pc = "main"
    /\ flag = f
    /\ IF args[f] # <<>>
       THEN /\ caller' = "main"
            /\ dates' = args[f]
            /\ report_num' = main_report_num
            /\ strategies' = strategy
            /\ yearly' = y
            /\ reports' = <<>>
            /\ idx' = 1
            /\ pc' = "for"
            /\ flag' = flag
       ELSE /\ flag' = following
            /\ UNCHANGED <<caller, dates, report_num, strategies, yearly, reports, idx, pc>>
    /\ UNCHANGED <<files_dir, readings, computations, result, err, response, stdout, trace,
                   daily_data, daily_readings, args, main_report_num>>

main_e == main_if("e", [calc_strategy |-> "None", report_strategy |-> "None"], TRUE, "a")

main_a == main_if("a", [calc_strategy |-> "compute_monthly_average",
                        report_strategy |-> "generate_average_report"], FALSE, "c")

main_c == main_if("c", [calc_strategy |-> "compute_min_max",
                        report_strategy |-> "generate_multiple_bar_report"], FALSE, "b")

main_b == main_if("b", [calc_strategy |-> "compute_min_max",
                        report_strategy |-> "generate_single_bar_report"], FALSE, "end")

\* the flag group after f
Following(f) == CASE f = "e" -> "a" [] f = "a" -> "c" [] f = "c" -> "b" [] f = "b" -> "end"

\* report_num = process_args(...): main binds its report_num to the list
\* process_args returned
main_assign ==
    /\ pc = "returned"
    /\ caller = "main"
    /\ main_report_num' = PyList(result.val)
    /\ flag' = Following(flag)
    /\ pc' = "main"
    /\ UNCHANGED <<files_dir, caller, dates, strategies, yearly, report_num, idx, readings,
                   computations, reports, result, err, response, stdout, trace,
                   daily_data, daily_readings, args>>

NextMain ==
    \/ main_e
    \/ main_a
    \/ main_c
    \/ main_b
    \/ main_assign
    \/ ForDate
    \/ Read
    \/ Compute
    \/ Generate
    \/ Return

SpecMain == InitMain /\ [][NextMain]_vars

\* ============================================================== properties

\* the report the pipeline generates for the n-th date of the running call
PipelineReport(n) ==
    LET got     == IF yearly THEN get_yearly_readings(files_dir, dates[n])
                   ELSE get_monthly_readings(files_dir, dates[n])
        read    == IF yearly THEN YearlyReadings(got.val) ELSE MonthlyReadings(got.val)
        summary == Calculator(read, strategies.calc_strategy)
    IN  ReportGenerator(summary.val, dates[n], strategies.report_strategy).val

\* C1: when process_args returns, the list it returns has one report per input
\* date, and its n-th report is the one generated for the n-th date
C1_OneReportPerDateInOrder ==
    result # None =>
        /\ Len(result.val) = Len(dates)
        /\ \A n \in 1..Len(dates) : result.val[n] = PipelineReport(n)

\* a call over two dates has returned two different reports
C1_Witness ==
    /\ result # None
    /\ Len(dates) = 2
    /\ result.val[1] # result.val[2]
    /\ result.val[1].date = dates[1]

\* number of 'Report # n' lines printed
HeadersPrinted == Cardinality({n \in 1..Len(stdout) : stdout[n].text = "Report #"})

\* C2: once a per-date step of the k-th date has failed, the error is out of
\* process_args: nothing was run for a later date, nothing is returned, and
\* nothing more is run, printed or collected from then on
C2_FailureAbortsTheBatch ==
    /\ [](err # NoError =>
            /\ pc \in {"raised", "responded"}
            /\ result = None
            /\ \A n \in 1..Len(trace) : trace[n].date <= idx
            /\ HeadersPrinted = idx
            /\ Len(reports) = idx - 1)
    /\ [][err # NoError => UNCHANGED <<trace, stdout, reports, result, idx>>]_vars

\* a monthly date without a matching file failed while a later date was waiting
C2_Witness ==
    /\ pc = "raised"
    /\ err = "IndexError"
    /\ ~yearly
    /\ idx < Len(dates)
    /\ trace[Len(trace)] = [step |-> "reader", date |-> idx]

\* C8: a route answers any error that left process_args with the one
\* WeatherException response, and answers 200 with the reports only when
\* process_args returned a report for every requested date
C8_EveryErrorIsTheSame400 ==
    (pc = "responded" /\ caller \in Routes) =>
        IF err # NoError
        THEN response = [status |-> 400, message |-> "invalid input data entered"]
        ELSE /\ response = [status |-> 200, json |-> result.val]
             /\ Len(response.json) = Len(dates)

\* a route answered 400 to a missing file (IndexError)
C8_Witness ==
    /\ pc = "responded"
    /\ caller = "weatherman_monthly_report"
    /\ err = "IndexError"
    /\ response.status = 400

\* ------------------------------------------------------------ C5
\* the cell texts that are decimal numbers, and the tenths they denote
NumericCells == { <<"7">>, <<"-","1",".","5">> }

TenthsOf(cell) == IF cell = <<"7">> THEN 70 ELSE 0 - 15

\* C5: the Daily Reading of a Raw Row has the row's field names; PKT, Events
\* and empty cells keep their raw str, every other cell is the number it
\* spells; a row with a non-empty non-numeric cell outside PKT and Events
\* gives an error and no reading
C5_FieldTyping ==
    pc = "typed" =>
        IF \E h \in DOMAIN daily_data \ {"PKT", "Events"} :
               daily_data[h] \notin NumericCells \cup {<<>>}
        THEN ~daily_readings.ok
        ELSE /\ daily_readings.ok
             /\ DOMAIN daily_readings.val = DOMAIN daily_data
             /\ \A h \in DOMAIN daily_data :
                  IF h \in {"PKT", "Events"} \/ daily_data[h] = <<>>
                  THEN /\ daily_readings.val[h].t = "str"
                       /\ daily_readings.val[h].s = daily_data[h]
                  ELSE /\ daily_readings.val[h].t = "float"
                       /\ daily_readings.val[h].x = TenthsOf(daily_data[h])

\* a row with an event, a number and an empty cell was typed
C5_Witness ==
    /\ pc = "typed"
    /\ DOMAIN daily_data = RowFields
    /\ daily_data["Events"] = <<"R","a","i","n">>
    /\ daily_data["Mean Humidity"] = <<>>
    /\ daily_readings.ok
    /\ daily_readings.val["Max TemperatureC"] = FloatVal(0 - 15)
    /\ daily_readings.val["Events"] = StrVal(<<"R","a","i","n">>)
    /\ daily_readings.val["Mean Humidity"] = StrVal(<<>>)

\* ------------------------------------------------------------ C3, C4, C6, C7
\* the reduction func has been applied to readings of the shape
Reduced(func, shape) ==
    /\ pc = "reduced"
    /\ strategies.calc_strategy = func
    /\ readings.shape = shape

\* positions <<month, day>> of the yearly readings, and their iteration order
Positions == UNION {{<<m, d>> : d \in 1..Len(readings.d[m].v)} : m \in 1..Len(readings.d)}

Before(p, q) == p[1] < q[1] \/ (p[1] = q[1] /\ p[2] < q[2])

CellAt(p, field) == readings.d[p[1]].v[p[2]].v[field]

LabelAt(p) == [day |-> readings.d[p[1]].v[p[2]].k, month |-> readings.d[p[1]].k]

\* the positions whose field is not empty
Filled(field) == {p \in Positions : CellAt(p, field) # Blank}

\* the integer part of a number of tenths
Trunc(x) == IF x >= 0 THEN x \div 10 ELSE 0 - ((0 - x) \div 10)

\* p is the first position, in iteration order, among those of S
FirstOf(p, S) == p \in S /\ \A q \in S : q = p \/ Before(p, q)

\* value and date are the extreme of the field as the claim states it: sign 1
\* for the largest, -1 for the smallest value, the first position attaining it
ExtremeAsStated(field, sign, value, date) ==
    \E p \in Filled(field) :
        /\ \A q \in Filled(field) : sign * CellAt(q, field).x <= sign * CellAt(p, field).x
        /\ FirstOf(p, {q \in Filled(field) : CellAt(q, field).x = CellAt(p, field).x})
        /\ 10 * value = CellAt(p, field).x
        /\ date = LabelAt(p)

\* the same on the integer parts of the values
ExtremeOfIntegerParts(field, sign, value, date) ==
    \E p \in Filled(field) :
        /\ \A q \in Filled(field) :
              sign * Trunc(CellAt(q, field).x) <= sign * Trunc(CellAt(p, field).x)
        /\ FirstOf(p, {q \in Filled(field) : Trunc(CellAt(q, field).x) = Trunc(CellAt(p, field).x)})
        /\ value = Trunc(CellAt(p, field).x)
        /\ date = LabelAt(p)

\* C3 as stated: the yearly extremes are the largest Max TemperatureC, the
\* smallest Min TemperatureC and the largest Max Humidity of the readings, each
\* dated by the first (month, day) pair, in iteration order, that attains it
C3_ExtremesOfTheReadings ==
    (Reduced("None", "yearly") /\ err = NoError) =>
        /\ ExtremeAsStated("Max TemperatureC", 1, computations.max_temp, computations.max_date)
        /\ ExtremeAsStated("Min TemperatureC", 0 - 1, computations.min_temp, computations.min_date)
        /\ ExtremeAsStated("Max Humidity", 1, computations.max_humidity,
                           computations.humidity_date)

\* C3 amended: the extremes are taken over the integer parts of the values
\* (truncation toward zero), each dated by the first (month, day) pair, in
\* iteration order, whose integer part attains it
C3_ExtremesOfTheIntegerParts ==
    (Reduced("None", "yearly") /\ err = NoError) =>
        /\ ExtremeOfIntegerParts("Max TemperatureC", 1,
                                 computations.max_temp, computations.max_date)
        /\ ExtremeOfIntegerParts("Min TemperatureC", 0 - 1,
                                 computations.min_temp, computations.min_date)
        /\ ExtremeOfIntegerParts("Max Humidity", 1,
                                 computations.max_humidity, computations.humidity_date)

\* two days of different months tie for the highest temperature and two for
\* the lowest, and the earlier of each is reported
C3_Witness ==
    /\ Reduced("None", "yearly")
    /\ err = NoError
    /\ \E p, q \in Filled("Max TemperatureC") :
          /\ p[1] < q[1]
          /\ CellAt(p, "Max TemperatureC") = CellAt(q, "Max TemperatureC")
          /\ computations.max_date = LabelAt(p)
    /\ \E p, q \in Filled("Min TemperatureC") :
          /\ Before(p, q)
          /\ CellAt(p, "Min TemperatureC") = CellAt(q, "Min TemperatureC")
          /\ computations.min_date = LabelAt(p)

\* C4: the output of compute_min_max has a key for exactly the days whose
\* Max TemperatureC and Min TemperatureC are both non-empty, each with two
\* integers; leaving a day out raises nothing
C4_DaysWithBothValues ==
    Reduced("compute_min_max", "monthly") =>
        /\ err = NoError
        /\ computations.kind = "min_max"
        /\ DictKeys(computations.d) =
             {readings.d[n].k : n \in {m \in 1..Len(readings.d) :
                                         /\ readings.d[m].v["Max TemperatureC"] # Blank
                                         /\ readings.d[m].v["Min TemperatureC"] # Blank}}
        /\ Len(computations.d) = Cardinality(DictKeys(computations.d))
        /\ \A n \in 1..Len(computations.d) :
              /\ DOMAIN computations.d[n].v = {"max_temp", "min_temp"}
              /\ computations.d[n].v.max_temp \in Int
              /\ computations.d[n].v.min_temp \in Int

\* a day with a maximum and no minimum was left out, another day was kept
C4_Witness ==
    /\ Reduced("compute_min_max", "monthly")
    /\ \E n \in 1..Len(readings.d) :
          /\ readings.d[n].v["Max TemperatureC"] # Blank
          /\ readings.d[n].v["Min TemperatureC"] = Blank
          /\ readings.d[n].k \notin DictKeys(computations.d)
    /\ computations.d # <<>>

\* the field is empty on every day of every month of yearly readings
EmptyAllYear(field) == Filled(field) = {}

\* the field is empty on every day of monthly readings
EmptyAllMonth(field) == \A n \in 1..Len(readings.d) : readings.d[n].v[field] = Blank

\* C6: Calculator.compute raises, and yields no Summary, when one of its
\* three fields is empty on every day of every month (also with no month at
\* all); compute_monthly_average does when one of its three fields is empty
\* on every day of the month
C6_EmptyRangeFails ==
    /\ (/\ Reduced("None", "yearly")
        /\ \E field \in {"Max TemperatureC", "Min TemperatureC", "Max Humidity"} :
              EmptyAllYear(field))
       => (err # NoError /\ computations = None)
    /\ (/\ Reduced("compute_monthly_average", "monthly")
        /\ \E field \in {"Max TemperatureC", "Min TemperatureC", "Mean Humidity"} :
              EmptyAllMonth(field))
       => (err # NoError /\ computations = None)

\* Calculator.compute raised over two days with temperatures and no humidity
C6_Witness ==
    /\ Reduced("None", "yearly")
    /\ Cardinality(Positions) = 2
    /\ Cardinality(Filled("Max TemperatureC")) = 2
    /\ Cardinality(Filled("Min TemperatureC")) = 2
    /\ EmptyAllYear("Max Humidity")
    /\ err = "ValueError"

\* compute_monthly_average raised over a day without a mean humidity
C6_WitnessAverage ==
    /\ Reduced("compute_monthly_average", "monthly")
    /\ readings.d # <<>>
    /\ ~EmptyAllMonth("Max TemperatureC")
    /\ ~EmptyAllMonth("Min TemperatureC")
    /\ EmptyAllMonth("Mean Humidity")
    /\ err = "ZeroDivisionError"

\* the days of monthly readings whose field is not empty
DaysFilled(field) == {n \in 1..Len(readings.d) : readings.d[n].v[field] # Blank}

RECURSIVE UnitsOver(_, _)
\* the sum, in units, of the field over the days S (whole numbers of units)
UnitsOver(S, field) ==
    IF S = {} THEN 0
    ELSE LET n == CHOOSE m \in S : TRUE
         IN  (readings.d[n].v[field].x \div 10) + UnitsOver(S \ {n}, field)

\* r is sum / count rounded to the nearest integer, a half to the even one
NearestHalfEven(r, sum, count) ==
    LET twice == IF 2 * (r * count - sum) >= 0 THEN 2 * (r * count - sum)
                 ELSE 0 - 2 * (r * count - sum)
    IN  /\ twice <= count
        /\ twice = count => r % 2 = 0

\* the average of the field is as C7 states, when its values are whole numbers
AverageAsStated(field, avg) ==
    (\A n \in DaysFilled(field) : readings.d[n].v[field].x % 10 = 0) =>
        NearestHalfEven(avg, UnitsOver(DaysFilled(field), field),
                        Cardinality(DaysFilled(field)))

\* C7: for whole-number readings each monthly average is the sum of the
\* non-empty values of its field over their count, rounded to the nearest
\* integer, an exact half to the even one; empty days count for nothing
C7_AveragesRoundHalfEven ==
    (Reduced("compute_monthly_average", "monthly") /\ err = NoError) =>
        /\ AverageAsStated("Max TemperatureC", computations.max_temp_avg)
        /\ AverageAsStated("Min TemperatureC", computations.min_temp_avg)
        /\ AverageAsStated("Mean Humidity", computations.mean_humidity_avg)

\* maximum temperatures 2 and 1 averaged to 2 (1.5 rounds to the even 2) while
\* one of the two days, without a mean humidity, was left out of that average
C7_Witness ==
    /\ Reduced("compute_monthly_average", "monthly")
    /\ err = NoError
    /\ Len(readings.d) = 2
    /\ readings.d[1].v["Max TemperatureC"] = FloatVal(20)
    /\ readings.d[2].v["Max TemperatureC"] = FloatVal(10)
    /\ computations.max_temp_avg = 2
    /\ Cardinality(DaysFilled("Mean Humidity")) = 1
    /\ computations.mean_humidity_avg = 51

\* maximum temperatures 0 and 1 averaged to 0 (0.5 rounds to the even 0)
C7_WitnessHalfDown ==
    /\ Reduced("compute_monthly_average", "monthly")
    /\ err = NoError
    /\ Len(readings.d) = 2
    /\ readings.d[1].v["Max TemperatureC"] = FloatVal(0)
    /\ readings.d[2].v["Max TemperatureC"] = FloatVal(10)
    /\ computations.max_temp_avg = 0

\* ------------------------------------------------------------ C9, C10
\* the file is one get_yearly_readings reads for the query date
Matched(file, query_date) == Contains(file.name, query_date) /\ EndsWith(file.name, DotTxt)

\* long month name of the first row of a file
MonthOfFirstRow(file) == MonthLong[strptime_Ymd(file.lines[1][1]).val.month]

\* the days of the rows of a file
DaysOfFile(file) == {strptime_Ymd(file.lines[n][1]).val.day : n \in 1..Len(file.lines)}

\* C9: the yearly readings handed to the calculator hold, for every matched
\* file, that file's Monthly Readings under the month of its first row, with
\* every day of the file
C9_EveryMatchedFileIsKept ==
    (pc = "compute" /\ yearly) =>
        \A n \in 1..Len(files_dir) :
            Matched(files_dir[n], dates[idx]) =>
                /\ DictHas(readings.d, MonthOfFirstRow(files_dir[n]))
                /\ DaysOfFile(files_dir[n])
                     \subseteq DictKeys(DictGet(readings.d, MonthOfFirstRow(files_dir[n])))
                /\ DictGet(readings.d, MonthOfFirstRow(files_dir[n]))
                     = FillMonthly(read_csv(files_dir[n]), <<>>).val

\* a line of a bar chart
IsBar(line) == line.text \in {"max bar", "min bar", "range bar"}

\* C10: within one report, the bar lines are printed in ascending order of day
C10_BarsInAscendingDayOrder ==
    \A m, n \in 1..Len(stdout) :
        (/\ m < n
         /\ IsBar(stdout[m]) /\ IsBar(stdout[n])
         /\ \A o \in m..n : stdout[o].text # "Report #")
        => stdout[m].day <= stdout[n].day

\* ------------------------------------------------------------ C11
\* a bar-chart render of the running call has finished
BarsRendered ==
    /\ pc \in {"for", "returned"}
    /\ err = NoError
    /\ reports # <<>>
    /\ strategies.report_strategy \in BarStrategies

\* a run of v marker characters: there is none when v is zero or negative
Marks(v) == Cardinality(1..v)

\* after the header and the month line, the lines printed are those of the
\* days of the Summary, one by one, each bar count(value) markers long, and
\* the report collected is the empty structure
BarsDrawn(count(_)) ==
    LET d == computations.d
    IN  /\ reports = <<EmptyReport>>
        /\ stdout[2].text = "month year"
        /\ IF strategies.report_strategy = "generate_multiple_bar_report"
           THEN /\ Len(stdout) = 2 + 2 * Len(d)
                /\ \A n \in 1..Len(d) :
                      /\ stdout[2 * n + 1].text = "max bar"
                      /\ stdout[2 * n + 1].day = d[n].k
                      /\ stdout[2 * n + 1].bar = count(d[n].v.max_temp)
                      /\ stdout[2 * n + 2].text = "min bar"
                      /\ stdout[2 * n + 2].day = d[n].k
                      /\ stdout[2 * n + 2].bar = count(d[n].v.min_temp)
           ELSE /\ Len(stdout) = 2 + Len(d)
                /\ \A n \in 1..Len(d) :
                      /\ stdout[n + 2].text = "range bar"
                      /\ stdout[n + 2].day = d[n].k
                      /\ stdout[n + 2].blue = count(d[n].v.min_temp)
                      /\ stdout[n + 2].red = count(d[n].v.max_temp)

\* C11 as stated: in both bar-chart renders, for every day of the Summary the
\* number of markers drawn for the max value equals max_temp and the number
\* drawn for the min value equals min_temp, also for zero and negative
\* values, and the render returns an empty structure
C11_BarsCountTheValue == BarsRendered => BarsDrawn(LAMBDA v : v)

\* C11 amended: in both bar-chart renders, for every day of the Summary the
\* number of markers drawn for a value equals the value when it is positive
\* and is zero when the value is zero or negative, and the render returns an
\* empty structure
C11_BarsCountThePositiveValue == BarsRendered => BarsDrawn(Marks)

\* the dual-bar render has drawn a day whose max value is zero and whose min
\* value is negative, and a day with positive values
C11_Witness ==
    /\ BarsRendered
    /\ strategies.report_strategy = "generate_multiple_bar_report"
    /\ \E m, n \in 1..Len(computations.d) :
          /\ computations.d[m].v.max_temp = 0
          /\ computations.d[m].v.min_temp < 0
          /\ stdout[2 * m + 2].bar = 0
          /\ computations.d[n].v.max_temp > 0
          /\ computations.d[n].v.min_temp > 0

\* the single-bar render has drawn a day with a negative max value
C11_WitnessSingle ==
    /\ BarsRendered
    /\ strategies.report_strategy = "generate_single_bar_report"
    /\ \E n \in 1..Len(computations.d) :
          /\ computations.d[n].v.max_temp < 0
          /\ stdout[n + 2].red = 0

\* ------------------------------------------------------------ C12
\* the 'Report # n' lines printed so far, in order
Headers == SelectSeq(stdout, LAMBDA line : line.text = "Report #")

\* number of reports generated and printed so far
ReportsPrinted == Cardinality({n \in 1..Len(trace) : trace[n].step = "generator"})

\* process_args was left by the exception of report_num += 1: the report of
\* the current date is already collected
IncrementRaised == pc = "raised" /\ Len(reports) = idx

\* C12: over one invocation of main, the counter a process_args call works on
\* is an integer equal to 1 plus the number of reports already printed, the
\* 'Report # n' headers are numbered 1, 2, 3, ... across all flag groups, and
\* no flag group is cut short by the counter
C12_CounterTracksReportsPrinted ==
    flag # "none" =>
        /\ \A k \in 1..Len(Headers) : Headers[k].n = PyInt(k)
        /\ pc = "for" => report_num = PyInt(1 + ReportsPrinted)
        /\ ~IncrementRaised

====
